---- MODULE Spec2Model ----
\* BlinkLoad: the blink state machine and windowed metrics of
\* src/src/blink_detector.py (class BlinkDetector).
\*
\* Units.  Timestamps are carried in milliseconds (the code holds float
\* seconds and multiplies a difference by 1000 to get ms), EAR values in
\* steps of 0.005 (0.22 is 44) so that the average of two modelled EARs is
\* exact.  Float rounding is not modelled.
EXTENDS Integers, Sequences, FiniteSets, TLC

\* ---------------------------------------------------------------- constants
EAR_THRESHOLD == 44
EAR_CONSEC_FRAMES == 3
WINDOW_SIZE_SEC == 30
MIN_BLINK_DURATION == 100
MAX_BLINK_DURATION == 400
MsPerSecond == 1000
BURST_GAP_SEC == 2

\* ------------------------------------------------------------------- bounds
MaxCounter == 3
MaxBlinks == 2
MaxOpenEvents == 1
\* longest window of events on which the burst index is examined
MaxBurstEvents == 4

\* Inputs.  Samples are (left_ear, right_ear) pairs: both closed, one eye
\* closed, both exactly at the default threshold, both open.
Samples == { <<20, 20>>, <<20, 60>>, <<44, 44>>, <<60, 60>> }
\* Timestamps handed to update, in non-decreasing order (a Sample carries a
\* monotonic timestamp; update's default is time.time()).  Their differences
\* include 99, 100, 400 and 401 ms (both ends of the accepted durations) and
\* 600 ms.
Times == { 0, 1, 100, 401, 600 }
\* The same, with one sample pushed more than a window after the others.
LateTimes == Times \cup { 30101 }
\* Timestamps handed to get_metrics / get_window_count: before the events,
\* and exactly at or just past the window of the events of 100, 401, 600.
NowTimes == { 100, 30100, 30101, 30401, 30601 }
\* Constructor arguments.
Thresholds == { EAR_THRESHOLD, 46 }
ConsecFrames == { 2, EAR_CONSEC_FRAMES }
\* Constructor arguments outside their meaning (a negative threshold, a
\* non-positive frame count), which __init__ stores like any other.
InvalidThresholds == { -2 }
InvalidConsecFrames == { -1, 0 }

\* Python's None / a present value of an optional field
None == << >>
Some(v) == << v >>
The(o) == o[1]

VARIABLES
    threshold, consec_frames, counter, total_blinks,
    blink_events, ear_open_events, start_timestamp,
    \* history: the last call (operation, arguments, result, fields before
    \* it, whether it repeats the get_metrics call just before it)
    last,
    \* history: timestamp of the latest update call
    prev_time,
    \* history: the current maximal run of closed samples (length, timestamp of
    \* its first and of its latest sample)
    closure,
    \* history: the set of events removed from blink_events so far
    evicted

engine == << threshold, consec_frames, counter, total_blinks,
             blink_events, ear_open_events, start_timestamp >>
vars == << threshold, consec_frames, counter, total_blinks,
           blink_events, ear_open_events, start_timestamp,
           last, prev_time, closure, evicted >>

\* ------------------------------------------------------------------ helpers
RECURSIVE SumOver(_, _, _)
SumOver(s, i, acc) ==
    IF i > Len(s) THEN acc ELSE SumOver(s, i + 1, acc + s[i])

Sum(s) == SumOver(s, 1, 0)

Frac(n, d) == [num |-> n, den |-> d]
Zero == Frac(0, 1)
Sqrt(f) == [sqrt_of |-> f]

\* update, line 38: both eyes must be below threshold
EyesClosed(left_ear, right_ear, th) == left_ear < th /\ right_ear < th

\* update, line 35: avg_ear = (left_ear + right_ear) / 2.0
AvgEar(left_ear, right_ear) == (left_ear + right_ear) \div 2

ClosureStart_EveryFrame(c, start, current_time) == Some(current_time)
\* update, lines 39-40: start_timestamp after a closed sample
ClosureStart(c, start, current_time) ==
    IF c = 0 THEN Some(current_time) ELSE start

TotalWhileClosed_AtThreshold(total, c, cf) ==
    IF c + 1 = cf THEN total + 1 ELSE total
\* update, lines 38-42: the closed branch never assigns total_blinks
TotalWhileClosed(total, c, cf) == total

LongEnough_Strict(c, cf) == c > cf
LongEnough_AnyClosure(c, cf) == c >= 1
\* update, line 45
LongEnough(c, cf) == c >= cf

\* update, line 46: duration = (current_time - start_timestamp) * 1000
Duration(current_time, start) == current_time - start

Physiological_NoMax(duration) == MIN_BLINK_DURATION <= duration
Physiological_From70(duration) ==
    70 <= duration /\ duration <= MAX_BLINK_DURATION
Physiological_Either(duration) ==
    MIN_BLINK_DURATION <= duration \/ duration <= MAX_BLINK_DURATION
\* update, line 49
Physiological(duration) ==
    MIN_BLINK_DURATION <= duration /\ duration <= MAX_BLINK_DURATION

\* update, lines 51-54
BlinkEvent(t, d) == [timestamp |-> t, duration |-> d]

Appended_InFront(events, e) == << e >> \o events
\* update, line 51: blink_events.append
Appended(events, e) == Append(events, e)

Incremented_Twice(total) == total + 2
\* update, line 50
Incremented(total) == total + 1

ResetCounter_OnAcceptOnly(c, accepted) == IF accepted THEN 0 ELSE c
\* update, line 58: the counter after an open sample
ResetCounter(c, accepted) == 0

\* update, line 64
FullyOpen(avg_ear, th) == avg_ear > th

InWindow_Minutes(current_time, e) ==
    current_time - e.timestamp <= WINDOW_SIZE_SEC * 60 * MsPerSecond
InWindow_Strict(current_time, e) ==
    current_time - e.timestamp < WINDOW_SIZE_SEC * MsPerSecond
\* get_metrics lines 83-84, get_window_count line 149: the filter condition
InWindow(current_time, e) ==
    current_time - e.timestamp <= WINDOW_SIZE_SEC * MsPerSecond

Expire_PopOneHead(events, current_time) ==
    IF Len(events) > 0 /\ ~InWindow(current_time, events[1])
    THEN Tail(events) ELSE events
\* get_metrics lines 83-84, get_window_count line 149: the comprehension
Expire(events, current_time) ==
    SelectSeq(events, LAMBDA e : InWindow(current_time, e))

TotalAfterPull_Recount(total, events) == Len(events)
\* get_metrics / get_window_count never assign total_blinks
TotalAfterPull(total, events) == total

\* ------------------------------------------------------------------ metrics
\* Quotients are kept exact as numerator/denominator pairs; the square root
\* of get_metrics line 96 is kept symbolic.
Squares(xs) == [i \in 1..Len(xs) |-> xs[i] * xs[i]]

\* get_metrics lines 94-95 and 110-111: sum((x - mean) ** 2) / len, which is
\* (n * sum(x^2) - sum(x)^2) / n^2
Variance(xs) ==
    Frac(Len(xs) * Sum(Squares(xs)) - Sum(xs) * Sum(xs), Len(xs) * Len(xs))

\* get_metrics lines 92-96
Esi(opens) ==
    IF Len(opens) > 1
    THEN Sqrt(Variance([i \in 1..Len(opens) |-> opens[i].ear]))
    ELSE Sqrt(Zero)

\* get_metrics line 102: count / (WINDOW_SIZE_SEC / 60.0)
BlinkRate(count) == Frac(count * 60, WINDOW_SIZE_SEC)

\* get_metrics line 105
Durations(events) == [i \in 1..Len(events) |-> events[i].duration]

\* get_metrics lines 117-120
Intervals(events) ==
    [i \in 1..(Len(events) - 1) |->
        events[i + 1].timestamp - events[i].timestamp]

Ibi_SinceSingle(events, current_time) ==
    IF Len(events) > 1
    THEN Frac(Sum(Intervals(events)), Len(Intervals(events)))
    ELSE IF Len(events) = 1
         THEN Frac(current_time - events[1].timestamp, 1)
         ELSE Zero
\* get_metrics lines 116-121 and 135-136
Ibi(events, current_time) ==
    IF Len(events) > 1
    THEN Frac(Sum(Intervals(events)), Len(Intervals(events)))
    ELSE Zero

\* get_metrics lines 125-133: the loop over i in range(1, count), with
\* Python's index i being position i + 1 here
RECURSIVE BurstLoop(_, _, _, _)
BurstLoop(events, i, bursts, in_burst) ==
    IF i >= Len(events) THEN bursts
    ELSE IF events[i + 1].timestamp - events[i].timestamp
              <= BURST_GAP_SEC * MsPerSecond
         THEN IF ~in_burst
              THEN BurstLoop(events, i + 1, bursts + 1, TRUE)
              ELSE BurstLoop(events, i + 1, bursts, TRUE)
         ELSE BurstLoop(events, i + 1, bursts, FALSE)

Bursts_EveryPair(events) ==
    Cardinality({ i \in 1..(Len(events) - 1) :
                    events[i + 1].timestamp - events[i].timestamp
                        <= BURST_GAP_SEC * MsPerSecond })
\* get_metrics lines 125-133, from bursts = 0 and in_burst = False
Bursts(events) == BurstLoop(events, 1, 0, FALSE)

\* get_metrics lines 123-137
Bbi(events) ==
    IF Len(events) > 1 THEN Frac(Bursts(events), Len(events)) ELSE Zero

\* get_metrics lines 86-139, on the lists left by the eviction
Metrics(events, opens, current_time) ==
    LET count == Len(events)
    IN  IF count = 0
        THEN [ br |-> Zero, mbd |-> Zero, bdv |-> Zero, ibi |-> Zero,
               bbi |-> Zero, esi |-> Esi(opens) ]
        ELSE [ br |-> BlinkRate(count),
               mbd |-> Frac(Sum(Durations(events)), count),
               bdv |-> IF count > 1 THEN Variance(Durations(events))
                       ELSE Zero,
               ibi |-> Ibi(events, current_time),
               bbi |-> Bbi(events),
               esi |-> Esi(opens) ]

Snapshot(op, l, r, t, ret, raised) ==
    [ op |-> op, left |-> l, right |-> r, time |-> t, ret |-> ret,
      raised |-> raised,
      repeated |-> (op = "get_metrics" /\ last.op = "get_metrics"
                    /\ last.time = t),
      counter |-> counter, start |-> start_timestamp,
      total |-> total_blinks, events |-> blink_events,
      closure |-> closure ]

NoClosure == [n |-> 0, first |-> None, latest |-> None]

\* --------------------------------------------------------------------- Init
\* __init__, lines 18-25, for arguments drawn from the given sets
Construct(thresholds, frames) ==
    /\ threshold \in thresholds
    /\ consec_frames \in frames
    /\ counter = 0
    /\ total_blinks = 0
    /\ blink_events = << >>
    /\ ear_open_events = << >>
    /\ start_timestamp = None
    /\ prev_time = None
    /\ closure = NoClosure
    /\ evicted = { }
    /\ last = [ op |-> "init", left |-> 0, right |-> 0, time |-> 0,
                ret |-> FALSE, raised |-> FALSE, repeated |-> FALSE,
                counter |-> 0, start |-> None, total |-> 0,
                events |-> << >>, closure |-> NoClosure ]

Init == Construct(Thresholds, ConsecFrames)

\* construction with the default arguments
InitDefault == Construct({ EAR_THRESHOLD }, { EAR_CONSEC_FRAMES })

\* construction with any arguments __init__ accepts: the defaults and the
\* invalid ones
InitAnyConfig ==
    Construct({ EAR_THRESHOLD } \cup InvalidThresholds,
              { EAR_CONSEC_FRAMES } \cup InvalidConsecFrames)

\* ------------------------------------------------------------------ actions
History(current_time, closed) ==
    /\ IF prev_time = None THEN TRUE ELSE current_time >= The(prev_time)
    /\ prev_time' = Some(current_time)
    /\ closure' = IF closed
                  THEN [ n |-> closure.n + 1,
                         first |-> IF closure.n = 0 THEN Some(current_time)
                                   ELSE closure.first,
                         latest |-> Some(current_time) ]
                  ELSE NoClosure

\* update, lines 38-42
UpdateClosed(left_ear, right_ear, current_time) ==
    /\ counter < MaxCounter
    /\ start_timestamp' = ClosureStart(counter, start_timestamp, current_time)
    /\ counter' = counter + 1
    /\ total_blinks' = TotalWhileClosed(total_blinks, counter, consec_frames)
    /\ UNCHANGED << blink_events, ear_open_events >>
    /\ last' = Snapshot("update", left_ear, right_ear, current_time, TRUE,
                        FALSE)

\* update, lines 43-70
UpdateOpen(left_ear, right_ear, current_time) ==
    LET avg_ear == AvgEar(left_ear, right_ear)
        evaluate == LongEnough(counter, consec_frames)
        appendsOpen == FullyOpen(avg_ear, threshold)
    IN  IF evaluate /\ start_timestamp = None
        THEN \* line 46 raises TypeError before anything is assigned
             /\ UNCHANGED engine
             /\ last' = Snapshot("update", left_ear, right_ear, current_time,
                                 FALSE, TRUE)
        ELSE LET duration == Duration(current_time, The(start_timestamp))
                 accepted == evaluate /\ Physiological(duration)
             IN  /\ accepted => total_blinks < MaxBlinks
                 /\ appendsOpen => Len(ear_open_events) < MaxOpenEvents
                 /\ total_blinks' = IF accepted THEN Incremented(total_blinks)
                                    ELSE total_blinks
                 /\ blink_events' =
                        IF accepted
                        THEN Appended(blink_events,
                                      BlinkEvent(current_time, duration))
                        ELSE blink_events
                 /\ counter' = ResetCounter(counter, accepted)
                 /\ start_timestamp' = None
                 /\ ear_open_events' =
                        IF appendsOpen
                        THEN Append(ear_open_events,
                                    [timestamp |-> current_time,
                                     ear |-> avg_ear])
                        ELSE ear_open_events
                 /\ last' = Snapshot("update", left_ear, right_ear,
                                     current_time, FALSE, FALSE)

Update(left_ear, right_ear, current_time) ==
    /\ IF EyesClosed(left_ear, right_ear, threshold)
       THEN UpdateClosed(left_ear, right_ear, current_time)
       ELSE UpdateOpen(left_ear, right_ear, current_time)
    /\ History(current_time, left_ear < threshold /\ right_ear < threshold)
    /\ UNCHANGED << threshold, consec_frames, evicted >>

\* the events of a list that a later list no longer holds
Removed(before, after) ==
    { before[i] : i \in 1..Len(before) } \ { after[i] : i \in 1..Len(after) }

\* get_metrics, lines 72-139
GetMetrics(current_time) ==
    /\ blink_events' = Expire(blink_events, current_time)
    /\ ear_open_events' = Expire(ear_open_events, current_time)
    /\ total_blinks' = TotalAfterPull(total_blinks, blink_events')
    /\ last' = Snapshot("get_metrics", 0, 0, current_time,
                        Metrics(blink_events', ear_open_events', current_time),
                        FALSE)
    /\ evicted' = evicted \cup Removed(blink_events, blink_events')
    /\ UNCHANGED << threshold, consec_frames, counter, start_timestamp,
                    prev_time, closure >>

\* get_window_count, lines 141-150
GetWindowCount(current_time) ==
    /\ blink_events' = Expire(blink_events, current_time)
    /\ total_blinks' = TotalAfterPull(total_blinks, blink_events')
    /\ last' = Snapshot("get_window_count", 0, 0, current_time,
                        Len(blink_events'), FALSE)
    /\ evicted' = evicted \cup Removed(blink_events, blink_events')
    /\ UNCHANGED << threshold, consec_frames, counter, start_timestamp,
                    ear_open_events, prev_time, closure >>

Next ==
    \/ \E s \in Samples, t \in Times : Update(s[1], s[2], t)
    \/ \E now \in NowTimes : GetMetrics(now)
    \/ \E now \in NowTimes : GetWindowCount(now)

Spec == Init /\ [][Next]_vars

\* a default engine that also receives a sample long after the others
NextLate ==
    \/ \E s \in Samples, t \in LateTimes : Update(s[1], s[2], t)
    \/ \E now \in NowTimes : GetMetrics(now)
    \/ \E now \in NowTimes : GetWindowCount(now)

SpecLateUpdates == InitDefault /\ [][NextLate]_vars

\* a metrics request made after every held event has left the window
LatePull ==
    \E now \in NowTimes :
        /\ \A i \in 1..Len(blink_events) :
              now > blink_events[i].timestamp + WINDOW_SIZE_SEC * MsPerSecond
        /\ GetMetrics(now)

\* a default engine whose caller keeps requesting metrics as time advances
SpecFairPulls == InitDefault /\ [][Next]_vars /\ WF_vars(LatePull)

\* Windows of accepted events for the burst index: up to MaxBurstEvents
\* blinks of the shortest duration whose successive gaps are 1 s, exactly
\* 2 s, just over 2 s, or 5 s.
BurstGaps ==
    { MsPerSecond, BURST_GAP_SEC * MsPerSecond,
      BURST_GAP_SEC * MsPerSecond + 1, 5 * MsPerSecond }

GapLists == UNION { [1..n -> BurstGaps] : n \in 0..(MaxBurstEvents - 1) }

EventsFromGaps(gaps) ==
    [ i \in 1..(Len(gaps) + 1) |->
        BlinkEvent(MsPerSecond + Sum(SubSeq(gaps, 1, i - 1)),
                   MIN_BLINK_DURATION) ]

BurstWindows == { << >> } \cup { EventsFromGaps(g) : g \in GapLists }

\* a default engine that has accepted the blinks of one such window and has
\* not been asked for metrics yet
InitBursts ==
    /\ threshold = EAR_THRESHOLD
    /\ consec_frames = EAR_CONSEC_FRAMES
    /\ counter = 0
    /\ blink_events \in BurstWindows
    /\ total_blinks = Len(blink_events)
    /\ ear_open_events = << >>
    /\ start_timestamp = None
    /\ prev_time = IF blink_events = << >> THEN None
                   ELSE Some(blink_events[Len(blink_events)].timestamp)
    /\ closure = NoClosure
    /\ evicted = { }
    /\ last = [ op |-> "init", left |-> 0, right |-> 0, time |-> 0,
                ret |-> FALSE, raised |-> FALSE, repeated |-> FALSE,
                counter |-> 0, start |-> None, total |-> 0,
                events |-> << >>, closure |-> NoClosure ]

\* requests made while all are in the window, or after the first 2 s of them
\* have left it
BurstNowTimes == { 30 * MsPerSecond, 33 * MsPerSecond }

NextPulls ==
    \/ \E now \in BurstNowTimes : GetMetrics(now)
    \/ \E now \in BurstNowTimes : GetWindowCount(now)

SpecBursts == InitBursts /\ [][NextPulls]_vars

\* the same engine, constructed with any arguments
SpecAnyConfig == InitAnyConfig /\ [][Next]_vars

\* ------------------------------------------------------------------- claims
Window == WINDOW_SIZE_SEC * MsPerSecond
Pulls == { "get_metrics", "get_window_count" }

\* the last call was update with an open sample (at least one EAR at or
\* above threshold)
OpenSample ==
    /\ last.op = "update"
    /\ (last.left >= threshold \/ last.right >= threshold)

\* the last call was update with an open sample that ended a closure
Reopened == OpenSample /\ last.closure.n > 0

\* (reopen timestamp - timestamp of the closure's first closed sample) in ms
ClosureMs == last.time - The(last.closure.first)

Counted ==
    /\ total_blinks = last.total + 1
    /\ blink_events =
         Append(last.events, [timestamp |-> last.time, duration |-> ClosureMs])

NotCounted == total_blinks = last.total /\ blink_events = last.events

C1_Case ==
    /\ Reopened
    /\ last.closure.n >= consec_frames
    /\ MIN_BLINK_DURATION <= ClosureMs /\ ClosureMs <= MAX_BLINK_DURATION

\* C1: an open sample that follows a closure of at least consec_frames closed
\* samples whose duration lies in [MIN_BLINK_DURATION, MAX_BLINK_DURATION]
\* increments total_blinks by exactly 1 and appends exactly one event carrying
\* the reopen timestamp and that duration.
C1_AcceptedOnReopen == C1_Case => Counted

\* a closure of exactly consec_frames samples has just been accepted
C1_Witness == C1_Case /\ last.closure.n = consec_frames /\ Counted

C2_Case == Reopened /\ last.closure.n < consec_frames

\* C2: a closure of fewer than consec_frames samples never increments
\* total_blinks nor appends an event, whatever its duration, and the reopening
\* update returns False.
C2_ShortClosureRejected ==
    C2_Case => (NotCounted /\ ~last.raised /\ last.ret = FALSE)

\* a too-short closure of plausible duration has just been discarded
C2_Witness ==
    /\ C2_Case
    /\ MIN_BLINK_DURATION <= ClosureMs /\ ClosureMs <= MAX_BLINK_DURATION
    /\ NotCounted

C3_Case == Reopened /\ ClosureMs > MAX_BLINK_DURATION

\* C3: a closure whose duration exceeds MAX_BLINK_DURATION never increments
\* total_blinks nor appends an event, however many closed frames it had.
C3_TooLongRejected == C3_Case => NotCounted

\* a closure with enough frames but too long a duration has been discarded
C3_Witness == C3_Case /\ last.closure.n >= consec_frames /\ NotCounted

C4_Case ==
    /\ threshold = EAR_THRESHOLD
    /\ consec_frames = EAR_CONSEC_FRAMES
    /\ Reopened
    /\ last.closure.n >= consec_frames

\* C4 as stated: a default engine accepts a closure of enough frames iff its
\* duration is between 70 ms and 400 ms inclusive.
C4_Original ==
    C4_Case => (Counted <=> (70 <= ClosureMs /\ ClosureMs <= 400))

\* C4 as amended: a default engine accepts a closure of enough frames iff its
\* duration is between 100 ms and 400 ms inclusive; every other closure leaves
\* total_blinks and blink_events unchanged.
C4_DefaultBounds ==
    C4_Case => /\ Counted <=> (100 <= ClosureMs /\ ClosureMs <= 400)
               /\ Counted \/ NotCounted

\* a default engine has just discarded a closure of 70..99 ms
C4_Witness == C4_Case /\ 70 <= ClosureMs /\ ClosureMs < 100 /\ NotCounted

C6_TotalMonotone ==
    [][ /\ total_blinks' >= total_blinks
        /\ total_blinks' <= total_blinks + 1
        /\ last'.op \in Pulls => total_blinks' = total_blinks ]_vars

\* a pull has evicted counted events and total_blinks still counts them
C6_Witness ==
    /\ last.op \in Pulls
    /\ Len(blink_events) < Len(last.events)
    /\ total_blinks = last.total
    /\ total_blinks > Len(blink_events)

\* C7: get_metrics called twice with the same time and no call in between
\* returns identical metrics, and the second call leaves blink_events and
\* ear_open_events as the first call left them.
C7_MetricsIdempotent ==
    [][ (last.op = "get_metrics" /\ last'.op = "get_metrics"
         /\ last'.time = last.time)
        => /\ last'.ret = last.ret
           /\ blink_events' = blink_events
           /\ ear_open_events' = ear_open_events ]_vars

\* get_metrics has been repeated with the same time, after the first call
\* evicted something and kept something
C7_Witness ==
    /\ last.op = "get_metrics" /\ last.repeated
    /\ Len(blink_events) > 0
    /\ total_blinks > Len(blink_events)
    /\ blink_events = last.events

Kept(events, now) ==
    SelectSeq(events, LAMBDA e : e.timestamp >= now - Window)

\* C8: after get_metrics(now) or get_window_count(now), blink_events holds
\* exactly the previously held events with timestamp >= now - window, in their
\* original order, and the returned count / rate is that of these events.
C8_WindowEviction ==
    last.op \in Pulls =>
        /\ blink_events = Kept(last.events, last.time)
        /\ last.op = "get_window_count" =>
              last.ret = Len(Kept(last.events, last.time))
        /\ last.op = "get_metrics" =>
              last.ret.br.num * WINDOW_SIZE_SEC =
                  60 * Len(Kept(last.events, last.time)) * last.ret.br.den

\* a pull has kept an event exactly at now - window and evicted an older one
C8_Witness ==
    /\ last.op \in Pulls
    /\ \E i \in 1..Len(last.events) :
          last.events[i].timestamp < last.time - Window
    /\ Len(blink_events) > 0
    /\ blink_events[1].timestamp = last.time - Window

\* the mean gap between consecutive timestamps of a list of two or more
\* events is (last timestamp - first timestamp) / (n - 1)
IsMeanGap(f, events) ==
    f.num * (Len(events) - 1) =
        (events[Len(events)].timestamp - events[1].timestamp) * f.den

\* C9 as stated: the inter-blink interval is the mean gap for n > 1, the time
\* since the single event for n = 1, and 0 for n = 0.
C9_Original ==
    last.op = "get_metrics" =>
        /\ Len(blink_events) > 1 => IsMeanGap(last.ret.ibi, blink_events)
        /\ Len(blink_events) = 1 =>
              last.ret.ibi.num =
                  (last.time - blink_events[1].timestamp) * last.ret.ibi.den
        /\ Len(blink_events) = 0 => last.ret.ibi.num = 0

\* C9 as amended: the inter-blink interval is the mean gap for n > 1, and 0
\* for n = 1 as for n = 0.
C9_InterBlinkInterval ==
    last.op = "get_metrics" =>
        /\ Len(blink_events) > 1 => IsMeanGap(last.ret.ibi, blink_events)
        /\ Len(blink_events) <= 1 => last.ret.ibi.num = 0

\* get_metrics has reported 0 for a window holding one event older than now
C9_Witness ==
    /\ last.op = "get_metrics"
    /\ Len(blink_events) = 1
    /\ last.time > blink_events[1].timestamp
    /\ last.ret.ibi.num = 0

C10_Case ==
    /\ Reopened
    /\ The(last.closure.latest) - The(last.closure.first) > 500

\* C10: a closure in which the eyes stayed closed for more than 500 ms (from
\* its first to its latest closed sample) is never counted when the eyes
\* reopen, however many frames it had.
C10_LongClosureRejected == C10_Case => NotCounted

\* a closure of more than 500 ms and more than consec_frames frames has ended
\* without being counted
C10_Witness ==
    /\ C10_Case
    /\ last.closure.n > consec_frames
    /\ total_blinks = 0 /\ blink_events = << >>

ValidConfig == threshold >= 0 /\ consec_frames > 0

\* C11: construction with a negative threshold or a non-positive
\* consec_frames fails, so update is never called on an engine built from
\* such arguments.
C11_InvalidConfigRejected == last.op = "update" => ValidConfig

\* C12: on every engine the constructor returns, every update call completes
\* and returns a boolean; it never computes a duration while start_timestamp
\* is None.
C12_UpdateNeverRaises == last.op = "update" => ~last.raised

\* C13: in every reachable state counter > 0 iff start_timestamp is not None,
\* and while a closure is in progress start_timestamp is the timestamp of its
\* first closed sample, whatever closed samples followed.
C13_StartTracksClosure ==
    /\ counter > 0 <=> start_timestamp # None
    /\ counter = closure.n
    /\ closure.n > 0 => start_timestamp = closure.first

\* a closure of several samples at different times is in progress
C13_Witness ==
    /\ closure.n >= 2
    /\ The(closure.latest) > The(closure.first)
    /\ start_timestamp = closure.first

ClosedSample ==
    /\ last.op = "update"
    /\ last.left < threshold /\ last.right < threshold

\* C14: an update with both EARs below threshold leaves total_blinks and
\* blink_events unchanged; an update changes them only when its open sample
\* ends a closure, and then by one blink.
C14_CountedOnlyOnReopen ==
    last.op = "update" =>
        /\ ClosedSample => NotCounted
        /\ ~NotCounted => (Reopened /\ total_blinks = last.total + 1
                           /\ closure.n = 0)

\* a closed sample has just extended a closure that already has enough frames
\* and a plausible duration, and nothing was counted
C14_Witness ==
    /\ ClosedSample
    /\ closure.n >= consec_frames
    /\ The(closure.latest) - The(closure.first) >= MIN_BLINK_DURATION
    /\ The(closure.latest) - The(closure.first) <= MAX_BLINK_DURATION
    /\ NotCounted

\* C15: total_blinks >= len(blink_events) always; every update either
\* increments total_blinks and appends one event, or leaves both unchanged;
\* total_blinks is the number of events held plus the number evicted.
C15_TotalMatchesEvents ==
    /\ total_blinks >= Len(blink_events)
    /\ total_blinks = Len(blink_events) + Cardinality(evicted)
    /\ last.op = "update" =>
          \/ NotCounted
          \/ /\ total_blinks = last.total + 1
             /\ Len(blink_events) = Len(last.events) + 1
             /\ SubSeq(blink_events, 1, Len(last.events)) = last.events

\* one event has been evicted and another is held
C15_Witness ==
    /\ Cardinality(evicted) > 0
    /\ Len(blink_events) > 0
    /\ total_blinks > Len(blink_events)

Sorted(events) ==
    \A i, j \in 1..Len(events) :
        i < j => events[i].timestamp <= events[j].timestamp

\* C16: with non-decreasing update timestamps, blink_events is sorted by
\* timestamp in every reachable state, also after an eviction.
C16_EventsSorted == Sorted(blink_events)

\* a pull has left two events of different timestamps in the window
C16_Witness ==
    /\ last.op \in Pulls
    /\ Len(blink_events) >= 2
    /\ blink_events[1].timestamp < blink_events[2].timestamp

\* C17: after update(left, right, t) returns, neither blink_events nor
\* ear_open_events holds an entry with timestamp < t - window.
C17_EvictedOnUpdate ==
    (last.op = "update" /\ ~last.raised) =>
        /\ \A i \in 1..Len(blink_events) :
              blink_events[i].timestamp >= last.time - Window
        /\ \A i \in 1..Len(ear_open_events) :
              ear_open_events[i].timestamp >= last.time - Window

Holds(e) == \E i \in 1..Len(blink_events) : blink_events[i] = e

C18_Expired(e) == last.time > e.timestamp + Window

\* C18: a pull made after an event has left the window removes it, an
\* evicted event is never held again, and when metrics keep being requested
\* as time advances every held event is eventually absent (whenever events
\* are held, a state follows in which none of them is).
C18_EventuallyEvicted ==
    /\ [](last.op \in Pulls =>
             \A i \in 1..Len(last.events) :
                 C18_Expired(last.events[i]) => ~Holds(last.events[i]))
    /\ [](\A e \in evicted : ~Holds(e))
    /\ (blink_events # << >>) ~> (blink_events = << >>)

\* a pull has just removed every event it found, all of them expired
C18_Witness ==
    /\ last.op \in Pulls
    /\ Len(last.events) > 0
    /\ \A i \in 1..Len(last.events) : C18_Expired(last.events[i])
    /\ blink_events = << >>
    /\ evicted # { }

\* what an update call does to the state machine, as a function of the
\* machine's fields and the sample alone
C19_UpdateOutcome ==
    LET closed == last.left < threshold /\ last.right < threshold
        counts == IF closed \/ last.counter = 0
                     \/ last.counter < consec_frames
                  THEN FALSE
                  ELSE /\ last.time - The(last.start) >= MIN_BLINK_DURATION
                       /\ last.time - The(last.start) <= MAX_BLINK_DURATION
    IN  /\ last.ret = closed
        /\ counter = IF closed THEN last.counter + 1 ELSE 0
        /\ start_timestamp =
              IF ~closed THEN None
              ELSE IF last.counter = 0 THEN Some(last.time) ELSE last.start
        /\ total_blinks = IF counts THEN last.total + 1 ELSE last.total

\* C19: get_metrics and get_window_count leave counter, start_timestamp,
\* total_blinks, threshold and consec_frames unchanged, and the return value
\* and the effect of update on these fields depend on them and on the sample
\* only, so pulls inserted anywhere in a sample stream change neither.
C19_PullsLeaveMachineAlone ==
    /\ [][ last'.op \in Pulls =>
             UNCHANGED << counter, start_timestamp, total_blinks,
                          threshold, consec_frames >> ]_vars
    /\ [](last.op = "update" => C19_UpdateOutcome)

\* a pull made in the middle of a closure has evicted an event and left the
\* closure as it was
C19_Witness ==
    /\ last.op \in Pulls
    /\ counter > 0 /\ start_timestamp # None
    /\ counter = last.counter /\ start_timestamp = last.start
    /\ Len(blink_events) < Len(last.events)

\* the gap after event i of blink_events is at most 2.0 s
CloseGap(i) ==
    blink_events[i + 1].timestamp - blink_events[i].timestamp
        <= BURST_GAP_SEC * MsPerSecond

\* the maximal runs a..b of two or more consecutive events whose successive
\* gaps are all at most 2.0 s
MaximalRuns ==
    LET n == Len(blink_events)
    IN  { r \in (1..n) \X (1..n) :
            /\ r[1] < r[2]
            /\ \A i \in r[1]..(r[2] - 1) : CloseGap(i)
            /\ r[1] = 1 \/ ~CloseGap(r[1] - 1)
            /\ r[2] = n \/ ~CloseGap(r[2]) }

\* C20: the burst count of get_metrics is the number of maximal runs of
\* consecutive in-window events with all gaps <= 2.0 s; hence
\* 2 * burstCount <= n, the burst index lies in [0, 0.5], and it is 0 when
\* n <= 1.
C20_BurstIndex ==
    last.op = "get_metrics" =>
        LET n == Len(blink_events)
            bbi == last.ret.bbi
        IN  /\ n > 1 => (bbi.num = Cardinality(MaximalRuns) /\ bbi.den = n)
            /\ n <= 1 => bbi.num = 0
            /\ bbi.den > 0
            /\ 0 <= bbi.num /\ 2 * bbi.num <= bbi.den
            /\ 2 * Cardinality(MaximalRuns) <= n

\* get_metrics has reported two bursts among four events, separated by a
\* gap of just over 2 s: a burst index of exactly 0.5
C20_Witness ==
    /\ last.op = "get_metrics"
    /\ Len(blink_events) = 4
    /\ CloseGap(1) /\ ~CloseGap(2) /\ CloseGap(3)
    /\ blink_events[3].timestamp - blink_events[2].timestamp
          = BURST_GAP_SEC * MsPerSecond + 1
    /\ last.ret.bbi = Frac(2, 4)

====
